---- MODULE Spec2Model ----
(***************************************************************************)
(* Model of the hero catalogue router (src/src/routers/hero.js): the       *)
(* paginated list and search endpoints over the Hero collection and the    *)
(* comment creation and listing endpoints over the Comment collection.     *)
(*                                                                         *)
(* JavaScript values are modelled as tagged records.  A number is kept in  *)
(* tenths (v = 15 is 1.5) so that a fractional page such as "1.5" is       *)
(* computed exactly; NaN and undefined are values of their own.  A string  *)
(* is a sequence of one-character strings.                                 *)
(***************************************************************************)
EXTENDS Integers, Sequences, FiniteSets, TLC

\* ------------------------------------------------------------------ bounds
MaxHeroes == 25
MaxSeedComments == 4
MaxBodyKeys == 2
MaxOmitted == 1
MaxFlowHeroes == 1
MaxComments == 4
MaxPending == 1

\* ------------------------------------------------------- program constants
DEFAULT_HEROES_PER_PAGE == 10
DEFAULT_COMMENTS_PER_PAGE == 3

\* ------------------------------------------------------ JavaScript values
Undefined == [t |-> "undefined"]
NaN == [t |-> "NaN"]
Tenths(v) == [t |-> "number", v |-> v]
Num(k) == Tenths(k * 10)
Str(s) == [t |-> "string", s |-> s]

IsNum(x) == x.t = "number"

Digits == <<"0", "1", "2", "3", "4", "5", "6", "7", "8", "9">>
IsDigit(c) == \E d \in 1..10 : Digits[d] = c
DigitVal(c) == (CHOOSE d \in 1..10 : Digits[d] = c) - 1

RECURSIVE DigitsVal(_)
DigitsVal(s) ==
  IF s = <<>> THEN 0
  ELSE DigitsVal(SubSeq(s, 1, Len(s) - 1)) * 10 + DigitVal(s[Len(s)])

\* length of the longest prefix of s made of digits
RECURSIVE DigitPrefixLen(_)
DigitPrefixLen(s) ==
  IF s = <<>> \/ ~IsDigit(Head(s)) THEN 0 ELSE 1 + DigitPrefixLen(Tail(s))

\* StringNumericLiteral without sign: digits, optionally "." and one digit
\* (the strings of the model carry at most one fractional digit)
UnsignedToNumber(s) ==
  LET n == DigitPrefixLen(s)
      rest == SubSeq(s, n + 1, Len(s))
  IN  IF s = <<>> THEN NaN
      ELSE IF rest = <<>> THEN Num(DigitsVal(s))
      ELSE IF Head(rest) = "." /\ Len(rest) = 2 /\ IsDigit(rest[2])
        THEN Tenths(DigitsVal(SubSeq(s, 1, n)) * 10 + DigitVal(rest[2]))
      ELSE IF Head(rest) = "." /\ Len(rest) = 1 /\ n > 0
        THEN Num(DigitsVal(SubSeq(s, 1, n)))
      ELSE NaN

Negate(x) == IF IsNum(x) THEN Tenths(0 - x.v) ELSE x

\* Number(string): the empty string is 0, an optional sign, then the literal
StringToNumber(s) ==
  IF s = <<>> THEN Num(0)
  ELSE IF Head(s) = "-" THEN Negate(UnsignedToNumber(Tail(s)))
  ELSE IF Head(s) = "+" THEN UnsignedToNumber(Tail(s))
  ELSE UnsignedToNumber(s)

ToNumber(x) ==
  CASE x.t = "undefined" -> NaN
    [] x.t = "string" -> StringToNumber(x.s)
    [] OTHER -> x

isNaN(x) == ToNumber(x).t = "NaN"

\* truncation toward zero of a number kept in tenths
Trunc(v) == IF v >= 0 THEN v \div 10 ELSE 0 - ((0 - v) \div 10)

\* parseInt(x): ToString(x), optional sign, longest prefix of digits
StringParseInt(s) ==
  LET neg == s # <<>> /\ Head(s) = "-"
      body == IF s # <<>> /\ Head(s) \in {"-", "+"} THEN Tail(s) ELSE s
      n == DigitPrefixLen(body)
  IN  IF n = 0 THEN NaN
      ELSE IF neg THEN Num(0 - DigitsVal(SubSeq(body, 1, n)))
      ELSE Num(DigitsVal(SubSeq(body, 1, n)))

parseInt(x) ==
  CASE x.t = "undefined" -> NaN
    [] x.t = "NaN" -> NaN
    [] x.t = "string" -> StringParseInt(x.s)
    [] OTHER -> Num(Trunc(x.v))

\* a - b, a + b and a * b on JavaScript values (operands go through ToNumber)
Minus(a, b) ==
  LET x == ToNumber(a)
      y == ToNumber(b)
  IN  IF IsNum(x) /\ IsNum(y) THEN Tenths(x.v - y.v) ELSE NaN

Plus(a, b) ==
  LET x == ToNumber(a)
      y == ToNumber(b)
  IN  IF IsNum(x) /\ IsNum(y) THEN Tenths(x.v + y.v) ELSE NaN

Times(a, b) ==
  LET x == ToNumber(a)
      y == ToNumber(b)
  IN  IF IsNum(x) /\ IsNum(y) THEN Tenths((x.v * y.v) \div 10) ELSE NaN

\* a == b with b a number: the other operand is converted with ToNumber
LooseEq(a, b) ==
  a.t # "undefined" /\ ToNumber(a) = b

\* the page count rounded down instead of up
MathFloorDiv(count, limit) == count \div limit

\* Math.ceil(count / limit) for a count >= 0 and a limit > 0
MathCeilDiv(count, limit) ==
  IF count % limit = 0 THEN count \div limit ELSE (count \div limit) + 1

\* ------------------------------------------------------------ characters
\* UTF-8 code of the characters hero names are made of (the store compares
\* strings by code: upper case sorts before lower case)
CharCode(c) ==
  CASE c = "A" -> 65
    [] c = "F" -> 70
    [] c = "a" -> 97
    [] c = "f" -> 102
    [] c = "l" -> 108
    [] OTHER -> 0

\* case folding of the "i" flag
Lower(c) ==
  CASE c = "A" -> "a"
    [] c = "F" -> "f"
    [] OTHER -> c

\* ToString(undefined), as string concatenation produces it
UndefinedText == <<"u", "n", "d", "e", "f", "i", "n", "e", "d">>

ToStringJS(x) == IF x.t = "undefined" THEN UndefinedText ELSE x.s

\* new RegExp("^" + text, "i"): the pattern source after the anchor.  Of the
\* pattern syntax the model's inputs use "." (any character); every other
\* character of the inputs is a literal.
PrefixRegExp(text) == ToStringJS(text)

\* name matches /^pattern/i
RegExpTest(pattern, name) ==
  /\ Len(pattern) <= Len(name)
  /\ \A i \in 1..Len(pattern) :
       pattern[i] = "." \/ Lower(pattern[i]) = Lower(name[i])

\* a < b in the store's string order (code by code, a proper prefix first)
RECURSIVE StringLess(_, _)
StringLess(a, b) ==
  IF b = <<>> THEN FALSE
  ELSE IF a = <<>> THEN TRUE
  ELSE IF CharCode(Head(a)) # CharCode(Head(b))
    THEN CharCode(Head(a)) < CharCode(Head(b))
  ELSE StringLess(Tail(a), Tail(b))

\* ------------------------------------------------------------- catalogue
Null == [t |-> "null"]
Male == Str(<<"M", "a", "l", "e">>)
Female == Str(<<"F", "e", "m", "a", "l", "e">>)

StatKeys ==
  <<"intelligence", "strength", "speed", "durability", "power", "combat">>
StatKeySet == {StatKeys[j] : j \in 1..Len(StatKeys)}
StatLevels == <<10, 50, 100>>
NameAlphabet == <<"A", "F", "a", "f", "l">>
Genders == <<Male, Female, Null>>

\* the k-th distinct name of the seeded catalogue, k >= 0
RECURSIVE SeedName(_)
SeedName(k) ==
  IF k < Len(NameAlphabet) THEN <<NameAlphabet[k + 1]>>
  ELSE SeedName(k \div Len(NameAlphabet))
         \o <<NameAlphabet[(k % Len(NameAlphabet)) + 1]>>

\* the i-th hero of the seeded catalogue, i >= 1
SeedHero(i) ==
  [ name |-> SeedName(i - 1),
    gender |-> Genders[((i \div 2) % 3) + 1],
    powerstats |->
      [ key \in StatKeySet |->
          LET j == CHOOSE j \in 1..Len(StatKeys) : StatKeys[j] = key
          IN  StatLevels[((i + j * (i \div 3)) % 3) + 1] ] ]

\* ------------------------------------------------------------------ state
VARIABLES
  heroes,    \* the Hero collection: _id -> document
  comments,  \* the Comment collection: sequence of documents in insert order
  now,       \* the clock createdAt is read from, in milliseconds
  pending,   \* handlers suspended at an await: slot -> locals
  res        \* the outcome of the handler that finished last

vars == <<heroes, comments, now, pending, res>>

HeroIds == DOMAIN heroes

\* ------------------------------------------------------------- the store
Min(a, b) == IF a <= b THEN a ELSE b

\* What the store makes of the number given to .skip(): a whole number >= 0
\* is the offset; a negative offset is rejected; NaN and a fractional offset
\* are, depending on the driver build, rejected or cut down to a whole number.
SkipOutcomes(skip) ==
  IF skip.t = "NaN"
    THEN {[ok |-> FALSE, n |-> 0], [ok |-> TRUE, n |-> 0]}
  ELSE IF skip.v < 0
    THEN {[ok |-> FALSE, n |-> 0]}
  ELSE IF skip.v % 10 = 0
    THEN {[ok |-> TRUE, n |-> skip.v \div 10]}
  ELSE {[ok |-> FALSE, n |-> 0], [ok |-> TRUE, n |-> skip.v \div 10]}

\* .sort({name: 'asc'}) of the heroes in S
SortByName(S) ==
  LET rank == [h \in S |->
                 Cardinality({g \in S :
                                StringLess(heroes[g].name, heroes[h].name)})]
  IN  [k \in 1..Cardinality(S) |-> CHOOSE h \in S : rank[h] = k - 1]

\* .skip(n).limit(limit) of a sorted result
SkipLimit(sorted, n, limit) ==
  SubSeq(sorted, n + 1, Min(n + limit, Len(sorted)))

\* ------------------------------------------------------------- responses
NoResponse ==
  [ ep |-> "none", page |-> Undefined, arg |-> Undefined, err |-> "none",
    skip |-> NaN, matched |-> {}, data |-> <<>>, count |-> 0,
    pageNum |-> NaN, pageCount |-> 0,
    previousPage |-> Undefined, nextPage |-> Undefined ]

\* the handler rejected at the store call: nothing is sent by the handler
Rejected(ep, page, arg, err, skip) ==
  [ NoResponse EXCEPT !.ep = ep, !.page = page, !.arg = arg, !.err = err,
                      !.skip = skip ]

Sent(ep, page, arg, skip, matched, data, count, pageNum, pageCount, previousPage, nextPage) ==
  [ ep |-> ep, page |-> page, arg |-> arg, err |-> "none",
    skip |-> skip, matched |-> matched, data |-> data, count |-> count,
    pageNum |-> pageNum, pageCount |-> pageCount,
    previousPage |-> previousPage, nextPage |-> nextPage ]

\* (page - 1) * limit, the argument of .skip()
PageSkip(page, limit) == Times(Minus(page, Num(1)), Num(limit))

\* ------------------------------------------------------------ GET /heroes
\* the page after "if (isNaN(page)) page = 1"
HeroesPage(p) == IF isNaN(p) THEN Num(1) ELSE p

HeroesContext(p, o) ==
  LET page == HeroesPage(p)
      previousPage == IF LooseEq(page, Num(1)) THEN Num(1)
                      ELSE Minus(page, Num(1))
      nextPage == Plus(parseInt(page), Num(1))
      count == Cardinality(HeroIds)
      pageCount == MathCeilDiv(count, DEFAULT_HEROES_PER_PAGE)
      skip == PageSkip(page, DEFAULT_HEROES_PER_PAGE)
  IN  IF ~o.ok THEN Rejected("heroes", p, Undefined, "skip", skip)
      ELSE Sent("heroes", p, Undefined, skip, HeroIds,
                SkipLimit(SortByName(HeroIds), o.n, DEFAULT_HEROES_PER_PAGE),
                count, parseInt(page), pageCount, previousPage, nextPage)

\* ------------------------------------------- POST /search/heroes/by-name
ByNameMatches(query) ==
  LET qname == PrefixRegExp(query)
  IN  {h \in HeroIds : RegExpTest(qname, heroes[h].name)}

ByNameResponse(p, query, o) ==
  LET page == p
      skip == PageSkip(page, DEFAULT_HEROES_PER_PAGE)
      matched == ByNameMatches(query)
      count == Cardinality(ByNameMatches(query))
      pageCount == MathCeilDiv(count, DEFAULT_HEROES_PER_PAGE)
  IN  IF ~o.ok THEN Rejected("by-name", p, query, "skip", skip)
      ELSE Sent("by-name", p, query, skip, matched,
                SkipLimit(SortByName(matched), o.n, DEFAULT_HEROES_PER_PAGE),
                count, parseInt(page), pageCount, Undefined, Undefined)

\* ---------------------------------------- POST /search/heroes/by-min-stats
\* the conditions pushed for the keys of the body (their order is immaterial
\* to $and, so they are kept as a set)
MinStatConditions(powerstats) ==
  {[key |-> key, gte |-> powerstats[key]] : key \in DOMAIN powerstats}

\* {$and: conditions}: an empty $and is rejected by the server ("$and/$or/$nor
\* must be a nonempty array") unless the build's query casting drops it, in
\* which case the filter is empty
AndOutcomes(conditions) ==
  IF conditions = {} THEN {"rejected", "accepted"} ELSE {"accepted"}

AndMatches(conditions) ==
  {h \in HeroIds :
     \A c \in conditions : heroes[h].powerstats[c.key] * 10 >= c.gte.v}

ByMinStatsResponse(p, powerstats, a, o) ==
  LET page == p
      conditions == MinStatConditions(powerstats)
      skip == PageSkip(page, DEFAULT_HEROES_PER_PAGE)
      matched == AndMatches(conditions)
      count == Cardinality(AndMatches(conditions))
      pageCount == MathCeilDiv(count, DEFAULT_HEROES_PER_PAGE)
  IN  IF a = "rejected"
        THEN Rejected("by-min-stats", p, powerstats, "filter", skip)
      ELSE IF ~o.ok THEN Rejected("by-min-stats", p, powerstats, "skip", skip)
      ELSE Sent("by-min-stats", p, powerstats, skip, matched,
                SkipLimit(SortByName(matched), o.n, DEFAULT_HEROES_PER_PAGE),
                count, parseInt(page), pageCount, Undefined, Undefined)

\* ------------------------------------------------------------ GET /search
\* 'appearance.gender': qgender.  An undefined value reaches the store as
\* null, which equals only a null or missing field.
GenderMatches(gender, qgender) ==
  IF qgender.t = "undefined" THEN gender = Null ELSE gender = qgender

\* 'powerstats.<key>': {$gte: q}.  The query-string text is cast to a number;
\* an undefined bound reaches the store as null, and no number is $gte null.
GteMatches(stat, q) ==
  IF q.t = "undefined" THEN FALSE
  ELSE LET bound == ToNumber(q) IN IsNum(bound) /\ stat * 10 >= bound.v

SearchMatches(q) ==
  LET qname == PrefixRegExp(q.name)
  IN  {h \in HeroIds :
         /\ RegExpTest(qname, heroes[h].name)
         /\ GenderMatches(heroes[h].gender, q.gender)
         /\ \A key \in StatKeySet :
              GteMatches(heroes[h].powerstats[key], q.stats[key])}

SearchCount(q) ==
  LET qname == PrefixRegExp(q.name)
  IN  Cardinality({h \in HeroIds : RegExpTest(qname, heroes[h].name)})

SearchContext(p, q, o) ==
  LET page == p
      skip == PageSkip(page, DEFAULT_HEROES_PER_PAGE)
      matched == SearchMatches(q)
      count == SearchCount(q)
      pageCount == MathCeilDiv(count, DEFAULT_HEROES_PER_PAGE)
  IN  IF ~o.ok THEN Rejected("search", p, q, "skip", skip)
      ELSE Sent("search", p, q, skip, matched,
                SkipLimit(SortByName(matched), o.n, DEFAULT_HEROES_PER_PAGE),
                count, parseInt(page), pageCount, Undefined, Undefined)

\* ------------------------------------------------------------- comments
\* req.params.id: text that casts to an ObjectId, or text that does not
Oid(k) == [valid |-> TRUE, oid |-> k]
InvalidId == [valid |-> FALSE, oid |-> 0]

\* .populate('hero'): the reference replaced by the document it resolves to,
\* or by null when no Hero has that _id
Populate(c) ==
  [ id |-> c.id, text |-> c.text, createdAt |-> c.createdAt,
    hero |-> IF c.hero \in HeroIds THEN heroes[c.hero] ELSE Null ]

\* Comment.find({hero: id}) over the collection cs: the positions that match
CommentsOf(cs, oid) == {i \in 1..Len(cs) : cs[i].hero = oid}

\* the comments sorted oldest first instead of newest first
RECURSIVE AscOrders(_, _)
AscOrders(cs, S) ==
  IF S = {} THEN {<<>>}
  ELSE UNION {{<<m>> \o rest : rest \in AscOrders(cs, S \ {m})} :
                m \in {x \in S :
                         \A y \in S : cs[x].createdAt <= cs[y].createdAt}}

\* .sort({createdAt: 'desc'}): every order of the comments at the positions S
\* in which createdAt never increases (equal timestamps come in any order)
RECURSIVE DescOrders(_, _)
DescOrders(cs, S) ==
  IF S = {} THEN {<<>>}
  ELSE UNION {{<<m>> \o rest : rest \in DescOrders(cs, S \ {m})} :
                m \in {x \in S :
                         \A y \in S : cs[x].createdAt >= cs[y].createdAt}}

NoLocals ==
  [ kind |-> "none", id |-> InvalidId, page |-> Undefined, skip |-> NaN,
    matched |-> {}, data |-> <<>>, acked |-> {}, cid |-> 0 ]

\* the comments whose creating handler has sent its response
Acked == {i \in 1..Len(comments) :
            \A h \in pending : ~(h.kind = "create" /\ h.cid = i)}

\* GET /heroes/:id/comments up to its first await: the find, in the order
\* `order` the store sorted the matching comments into
CommentsFind(id, page, order, o) ==
  [ NoLocals EXCEPT
      !.kind = "list", !.id = id, !.page = page,
      !.skip = PageSkip(page, DEFAULT_COMMENTS_PER_PAGE),
      !.matched = CommentsOf(comments, id.oid),
      !.data = [k \in 1..Len(SkipLimit(order, o.n, DEFAULT_COMMENTS_PER_PAGE))
                  |-> Populate(comments[SkipLimit(order, o.n,
                                          DEFAULT_COMMENTS_PER_PAGE)[k]])],
      !.acked = Acked \cap CommentsOf(comments, id.oid) ]

\* ... and from the count to res.send
CommentsResponse(h) ==
  LET count == Cardinality(CommentsOf(comments, h.id.oid))
      pageCount == MathCeilDiv(count, DEFAULT_COMMENTS_PER_PAGE)
  IN  Sent("comments", h.page, [id |-> h.id, acked |-> h.acked],
           h.skip, h.matched, h.data, count, parseInt(h.page), pageCount,
           Undefined, Undefined)

\* POST /heroes/:id/comments: the document comment.save() inserts at time t
NewComment(id, text, t) ==
  [ id |-> Len(comments) + 1, hero |-> id.oid, text |-> text, createdAt |-> t ]

\* ... and the response after findById(comment._id).populate('hero')
CreateResponse(h) ==
  Sent("create", Undefined, [id |-> Oid(comments[h.cid].hero)], NaN, {h.cid},
       <<Populate(comments[h.cid])>>, 0, NaN, 0, Undefined, Undefined)

\* ---------------------------------------------------------------- inputs
PageTexts ==
  { <<>>, <<"0">>, <<"1">>, <<"2">>, <<"3">>, <<"-", "1">>,
    <<"1", ".", "5">>, <<"a">>, <<"2", "a">> }
PageInputs == {Undefined} \cup {Str(s) : s \in PageTexts}

NameQueries ==
  {Undefined, Str(<<>>), Str(<<"f">>), Str(<<"F", "l">>), Str(<<".", "a">>)}

BodyThresholds == {Num(50), Num(100)}
MinStatBodies ==
  UNION {[K -> BodyThresholds] :
           K \in {S \in SUBSET StatKeySet : Cardinality(S) <= MaxBodyKeys}}

SearchNames == {Undefined, Str(<<>>), Str(<<"f">>)}
SearchGenders == {Undefined, Male, Female}
ThresholdTexts == {Str(<<"1", "0">>), Str(<<"5", "0">>)}
SearchStats ==
  {[key \in StatKeySet |-> IF key \in O THEN Undefined ELSE t] :
     O \in {S \in SUBSET StatKeySet :
              Cardinality(S) <= MaxOmitted \/ S = StatKeySet},
     t \in ThresholdTexts}
SearchQueries ==
  [name : SearchNames, gender : SearchGenders, stats : SearchStats]

\* the text of the k-th comment posted: each request carries a text of its own
CommentText(k) == <<"t", Digits[(k % 10) + 1]>>
SeedIds == {Oid(1), Oid(2), InvalidId}
FlowIds == {Oid(1), Oid(MaxFlowHeroes + 1), InvalidId}
FlowPages == {Str(<<"1">>)}

\* ------------------------------------------------------------------- Init
Catalogue(n) == [i \in 1..n |-> SeedHero(i)]

\* A seeded catalogue of up to MaxHeroes heroes and no comment, or a catalogue
\* of one hero with up to MaxSeedComments comments on it; no request in
\* progress.  (The hero endpoints never read the comments, the comment
\* listing reads only the hero its comments refer to.)
Init ==
  /\ \E n \in 0..MaxHeroes, k \in 0..MaxSeedComments :
       /\ k = 0 \/ n = 1
       /\ heroes = Catalogue(n)
       /\ comments = [i \in 1..k |->
                        [ id |-> i, hero |-> 1, text |-> CommentText(i),
                          createdAt |-> i ]]
       /\ now = k
  /\ pending = {}
  /\ res = NoResponse

\* a catalogue of MaxFlowHeroes heroes and an empty Comment collection
InitFlow ==
  /\ heroes = Catalogue(MaxFlowHeroes)
  /\ comments = <<>>
  /\ now = 0
  /\ pending = {}
  /\ res = NoResponse

\* ---------------------------------------------------------------- actions
\* a handler starts, or resumes, once the outcome of the previous step has
\* left with its connection
Idle == res = NoResponse

\* the outcome of the step before leaves: the response is on the wire, or the
\* rejection has gone to the process-wide fallback
Done ==
  /\ res # NoResponse
  /\ res' = NoResponse
  /\ UNCHANGED <<heroes, comments, now, pending>>

ListHeroes ==
  /\ Idle
  /\ \E p \in PageInputs :
       \E o \in SkipOutcomes(PageSkip(HeroesPage(p), DEFAULT_HEROES_PER_PAGE)) :
         /\ res' = HeroesContext(p, o)
         /\ UNCHANGED <<heroes, comments, now, pending>>

SearchByName ==
  /\ Idle
  /\ \E p \in PageInputs, query \in NameQueries :
       \E o \in SkipOutcomes(PageSkip(p, DEFAULT_HEROES_PER_PAGE)) :
         /\ res' = ByNameResponse(p, query, o)
         /\ UNCHANGED <<heroes, comments, now, pending>>

SearchByMinStats ==
  /\ Idle
  /\ \E p \in PageInputs, powerstats \in MinStatBodies :
       \E a \in AndOutcomes(MinStatConditions(powerstats)),
          o \in SkipOutcomes(PageSkip(p, DEFAULT_HEROES_PER_PAGE)) :
         /\ res' = ByMinStatsResponse(p, powerstats, a, o)
         /\ UNCHANGED <<heroes, comments, now, pending>>

Search ==
  /\ Idle
  /\ \E p \in PageInputs, q \in SearchQueries :
       \E o \in SkipOutcomes(PageSkip(p, DEFAULT_HEROES_PER_PAGE)) :
         /\ res' = SearchContext(p, q, o)
         /\ UNCHANGED <<heroes, comments, now, pending>>

ListArg(id) == [id |-> id, acked |-> {}]

\* GET /heroes/:id/comments with no other handler running between its awaits
ListComments ==
  /\ Idle
  /\ \E id \in SeedIds, p \in PageInputs :
       IF ~id.valid
         THEN res' = Rejected("comments", p, ListArg(id), "cast",
                              PageSkip(p, DEFAULT_COMMENTS_PER_PAGE))
         ELSE \E order \in DescOrders(comments, CommentsOf(comments, id.oid)),
                 o \in SkipOutcomes(PageSkip(p, DEFAULT_COMMENTS_PER_PAGE)) :
                res' = IF ~o.ok
                         THEN Rejected("comments", p, ListArg(id), "skip",
                                       PageSkip(p, DEFAULT_COMMENTS_PER_PAGE))
                         ELSE CommentsResponse(CommentsFind(id, p, order, o))
  /\ UNCHANGED <<heroes, comments, now, pending>>

\* POST /heroes/:id/comments up to the await of comment.save().  The clock
\* reads what it read at the save before, or the millisecond has turned.
CreateSave ==
  /\ Idle
  /\ Len(comments) < MaxComments
  /\ Cardinality(pending) < MaxPending
  /\ \E id \in FlowIds, elapsed \in {0, 1} :
       IF ~id.valid
         THEN /\ res' = Rejected("create", Undefined, [id |-> id], "cast", NaN)
              /\ elapsed = 0
              /\ UNCHANGED <<comments, pending, now>>
         ELSE /\ now' = now + elapsed
              /\ comments' =
                   Append(comments,
                          NewComment(id, CommentText(Len(comments) + 1),
                                     now + elapsed))
              /\ pending' = pending \cup
                   {[NoLocals EXCEPT !.kind = "create", !.id = id,
                                     !.cid = Len(comments) + 1]}
              /\ UNCHANGED res
  /\ UNCHANGED heroes

\* ... and from the resolution of save() to res.send
CreateRespond ==
  /\ Idle
  /\ \E h \in pending :
       /\ h.kind = "create"
       /\ res' = CreateResponse(h)
       /\ pending' = pending \ {h}
  /\ UNCHANGED <<heroes, comments, now>>

\* GET /heroes/:id/comments up to the await of the find
ListFind ==
  /\ Idle
  /\ Cardinality(pending) < MaxPending
  /\ \E id \in FlowIds, p \in FlowPages :
       IF ~id.valid
         THEN /\ res' = Rejected("comments", p, ListArg(id), "cast",
                                 PageSkip(p, DEFAULT_COMMENTS_PER_PAGE))
              /\ UNCHANGED pending
         ELSE \E order \in DescOrders(comments, CommentsOf(comments, id.oid)),
                 o \in SkipOutcomes(PageSkip(p, DEFAULT_COMMENTS_PER_PAGE)) :
                IF ~o.ok
                  THEN /\ res' = Rejected("comments", p, ListArg(id), "skip",
                                   PageSkip(p, DEFAULT_COMMENTS_PER_PAGE))
                       /\ UNCHANGED pending
                  ELSE /\ pending' = pending \cup {CommentsFind(id, p, order, o)}
                       /\ UNCHANGED res
  /\ UNCHANGED <<heroes, comments, now>>

\* ... and from the resolution of the find to res.send
ListRespond ==
  /\ Idle
  /\ \E h \in pending :
       /\ h.kind = "list"
       /\ res' = CommentsResponse(h)
       /\ pending' = pending \ {h}
  /\ UNCHANGED <<heroes, comments, now>>

\* --------------------------------------------------------- specifications
\* requests served one at a time over a seeded store
Next ==
  \/ ListHeroes
  \/ SearchByName
  \/ SearchByMinStats
  \/ Search
  \/ ListComments
  \/ Done

Spec == Init /\ [][Next]_vars

\* comment creation and listing, the handlers interleaving at their awaits
NextFlow ==
  \/ CreateSave
  \/ CreateRespond
  \/ ListFind
  \/ ListRespond
  \/ Done

SpecFlow == InitFlow /\ [][NextFlow]_vars

\* ----------------------------------------------------------------- claims
PaginatedEps == {"heroes", "by-name", "by-min-stats", "search", "comments"}

\* the handler ran its store calls (its id, if any, cast to an ObjectId)
Queried == res.ep \in PaginatedEps /\ res.err # "cast"

\* name begins with text, letters compared without regard to case
BeginsWithIgnoreCase(text, name) ==
  /\ Len(text) <= Len(name)
  /\ \A i \in 1..Len(text) : Lower(text[i]) = Lower(name[i])

\* C1: on every paginated endpoint, an absent or non-numeric page is page 1:
\* the skip given to the store is 0 and the page reported is 1.
C1_PageDefaultsToOne ==
  (Queried /\ isNaN(res.page)) =>
    /\ res.skip = Num(0)
    /\ res.err = "none" => res.pageNum = Num(1)

\* C2: the count of a list or search response is the number of records that
\* match the filter its data was fetched with.
C2_CountIsMatchCount ==
  (Queried /\ res.err = "none") => res.count = Cardinality(res.matched)

\* C3: in GET /search an omitted parameter constrains nothing: a hero that
\* satisfies every supplied filter is among the matches.
SatisfiesSupplied(h, q) ==
  /\ q.name # Undefined => BeginsWithIgnoreCase(q.name.s, heroes[h].name)
  /\ q.gender # Undefined => heroes[h].gender = q.gender
  /\ \A key \in StatKeySet :
       q.stats[key] # Undefined =>
         heroes[h].powerstats[key] * 10 >= StringToNumber(q.stats[key].s).v

C3_OmittedIsUnconstrained ==
  (res.ep = "search" /\ res.err = "none") =>
    \A h \in HeroIds : SatisfiesSupplied(h, res.arg) => h \in res.matched

\* C4: the min-stats search matches exactly the heroes at or above every
\* supplied threshold, and an empty body succeeds and matches every hero.
MeetsThresholds(h, body) ==
  \A key \in DOMAIN body : heroes[h].powerstats[key] * 10 >= body[key].v

C4_MinStatsMatchExactly ==
  res.ep = "by-min-stats" =>
    /\ res.err # "filter"
    /\ res.err = "none" =>
         res.matched = {h \in HeroIds : MeetsThresholds(h, res.arg)}

\* C5, as amended: a comment with text T created for an existing hero H before
\* a listing of H's page 1 starts is in that listing, its hero resolved to H's
\* record, provided fewer than 3 other comments of H are as new or newer.
CreatedFor(c) ==
  /\ comments[c].hero = res.arg.id.oid
  /\ comments[c].hero \in HeroIds

Listed(c) ==
  \E i \in 1..Len(res.data) :
    /\ res.data[i].text = comments[c].text
    /\ res.data[i].hero = heroes[comments[c].hero]

AsNewOrNewer(c) ==
  {d \in res.matched :
     d # c /\ comments[d].createdAt >= comments[c].createdAt}

PageOneListing ==
  res.ep = "comments" /\ res.err = "none" /\ res.page = Str(<<"1">>)

C6_NamePrefixExactly ==
  (res.ep = "by-name" /\ res.err = "none") =>
    res.matched =
      IF res.arg = Undefined THEN HeroIds
      ELSE {h \in HeroIds : BeginsWithIgnoreCase(res.arg.s, heroes[h].name)}

\* C7: pageCount is the ceiling of count / pageSize, the page size being 10
\* for hero listings and 3 for comment listings, and is 0 when count is 0.
ClaimedPageSize == IF res.ep = "comments" THEN 3 ELSE 10

C7_PageCountIsCeiling ==
  (Queried /\ res.err = "none") =>
    /\ res.pageCount * ClaimedPageSize >= res.count
    /\ (res.pageCount - 1) * ClaimedPageSize < res.count
    /\ res.count = 0 => res.pageCount = 0

\* a hero listing whose last page is partly filled
C7_Witness ==
  /\ res.ep = "heroes" /\ res.err = "none"
  /\ res.count > 20 /\ res.count % 10 # 0
  /\ res.pageCount = 3

\* C8: GET /heroes reports previousPage = page - 1, never below 1, and
\* nextPage = page + 1; page 2 of 25 heroes gives skip 10, pageCount 3,
\* previousPage 1, nextPage 3.
C8_PreviousAndNextPage ==
  (res.ep = "heroes" /\ res.err = "none") =>
    /\ res.previousPage =
         IF res.pageNum.v - 10 < 10 THEN Num(1) ELSE Tenths(res.pageNum.v - 10)
    /\ res.nextPage = Tenths(res.pageNum.v + 10)
    /\ (res.page = Str(<<"2">>) /\ res.count = 25) =>
         /\ res.skip = Num(10)
         /\ Len(res.data) <= 10
         /\ res.pageCount = 3
         /\ res.previousPage = Num(1)
         /\ res.nextPage = Num(3)

\* C9: every stored comment refers to a Hero of the store.
C9_CommentsReferToHeroes ==
  \A i \in 1..Len(comments) : comments[i].hero \in HeroIds

\* C10: whatever the page parameter, the skip given to the store is
\* (effectivePage - 1) * pageSize with effectivePage >= 1, never negative.
C10_SkipNeverNegative ==
  Queried =>
    /\ IsNum(res.skip)
    /\ res.skip.v >= 0
    /\ res.skip.v % (ClaimedPageSize * 10) = 0

====
